---------------------------- MODULE Spec2Model ----------------------------
(***************************************************************************)
(* Behaviour layer of the portfolio page: the two script versions          *)
(* (src/script.js, "v1", and src/unnamed/part_000, "v2").                  *)
(*                                                                         *)
(* The controllers share no state, so each one is checked under its own    *)
(* specification (SpecSlide, SpecAbout, SpecDebounce, SpecCopy, SpecVis);  *)
(* the variables of the other controllers are parked at a fixed value.     *)
(*                                                                         *)
(* Time: a pending setTimeout is a record [id, rem, cb] holding the time   *)
(* that remains before it fires.  Time passes in Tick actions, which never *)
(* step over a pending timer; a timer fires when its rem is 0, the oldest  *)
(* first.  Handlers are atomic (JavaScript runs them to completion).       *)
(***************************************************************************)
EXTENDS Integers, Sequences, FiniteSets

VARIABLES
    \* ---- ProjectCarousel (script.js)
    totalSlides,      \* this.totalSlides
    prevArrow,        \* this.prevArrow is present
    nextArrow,        \* this.nextArrow is present
    currentSlide,     \* this.currentSlide, a JavaScript number
    slideActive,      \* slides carrying the class 'active'
    slideOpacity,     \* slide -> style.opacity ("", "0" or "1")
    dotActive,        \* data-slide attributes of the dots carrying 'active'
    slideTimers,      \* pending fade-in callbacks
    nextRun,          \* history: the current run of consecutive showNextSlide
    lastTwo,          \* history: the last two transitions and the index before them
    \* ---- AboutCarousel (script.js)
    totalAboutCards,  \* this.totalAboutCards
    aboutTrack,       \* this.aboutTrack is present
    aboutPrevBtn,     \* this.aboutPrevBtn is present
    aboutNextBtn,     \* this.aboutNextBtn is present
    currentAboutIndex,\* this.currentAboutIndex
    cardActive,       \* cards carrying the class 'active'
    containerWidth,   \* aboutTrack.parentElement.offsetWidth
    trackTransform,   \* aboutTrack.style.transform: [set, px]
    aboutTimers,      \* pending timers: the first update, the debounced resize
    resizeTimeout,    \* the variable timeout of the debounced resize handler
    startX,           \* initTouchSupport: let startX
    currentX,         \* initTouchSupport: let currentX
    isDragging,       \* initTouchSupport: let isDragging
    gesture,          \* the finger: [on, start, last]
    aboutFired,       \* history: the transition the last handler made, or "none"
    ctorTrace,        \* history: the transitions made since construction
    \* ---- which script the page runs: "v1" (script.js) or "v2" (part_000)
    version,
    \* ---- a debounced function (both versions)
    dbWait,           \* debounce: wait
    dbTimeout,        \* debounce: let timeout
    dbTimers,         \* pending timers of the debounced function
    dbBurst,          \* history: the calls since the last invocation of func
    dbRun,            \* history: the invocations of func for this burst
    \* ---- clipboard copy and toast (both versions)
    toastExists,      \* the page has the element #toast
    emailLink,        \* the page has the element #email-link
    clipboardApi,     \* navigator.clipboard is defined
    toastText,        \* toast.textContent, as its words
    toastShown,       \* toast carries the class 'show'
    copied,           \* contact buttons carrying the class 'copied'
    clipboard,        \* the system clipboard: [set, text]
    bodyTextAreas,    \* temporary textareas attached to document.body
    pendingCopies,    \* copyToClipboard calls awaiting writeText
    copyTimers,       \* pending timers: hide the toast, remove 'copied'
    lastCopy,         \* history: the copyToClipboard call that just returned
    toastCall,        \* history: the latest showToast call that found the toast
    \* ---- scroll animations: ScrollAnimations (v1), initScrollAnimations (v2)
    scrollY,          \* window.scrollY
    innerHeight,      \* window.innerHeight
    visible,          \* elements carrying the class 'visible'
    observed,         \* v2: elements an IntersectionObserver still observes
    visTimers,        \* pending timers: class additions, debounced checks
    scrollTimeout,    \* v1: timeout of the debounced scroll handler
    checkResizeTimeout, \* v1: timeout of the debounced resize handler
    marks,            \* history: element -> class-addition callbacks run (up to 2)
    gained,           \* history: element -> times the class went from absent to present
    \* ---- image modal: ImageModal (v1), initImageModal and trapFocus (v2)
    modalExists,      \* the page has the element #image-modal
    modalContent,     \* it has .modal-image-placeholder (v1) / .modal-image (v2)
    modalCloseBtn,    \* it has .modal-close-btn (v1) / .modal-close (v2)
    focusCount,       \* trapFocus: focusableElements.length
    modalActive,      \* the modal carries the class 'active'
    bodyOverflow,     \* document.body.style.overflow
    modalShows,       \* the trigger whose text / image the modal shows ("" at first)
    activeElement,    \* document.activeElement, as a position of the tab order
    modalLast,        \* history: the last event and what held before it
    \* ---- navigation highlight: NavigationHighlight (v1), initActiveNavigation (v2)
    navLinks,         \* the href attributes of the nav links, in document order
    navActive,        \* the nav links (by position) carrying the class 'active'
    navHeader,        \* v1: the page has .top-header
    headerScrolled,   \* v1: the header carries the class 'scrolled'
    navScrollY,       \* window.scrollY
    navTimeout,       \* v1: timeout of the debounced scroll handler
    navTimers,        \* v1: pending timers of the debounced scroll handler
    navLast,          \* history: the section the last highlight step was for
    \* ---- startup: the DOMContentLoaded handler
    page,             \* the names the script can find (elements, globals)
    startPc,          \* the position of the handler in its sequence of calls
    startError,       \* the start function that threw, or ""
    initialized,      \* the start functions that returned
    bound,            \* the listeners, observers and timers bound so far
    visMode,          \* how visibility is detected: "", "polling", "observer"
    \* ---- mobile menu (v2): initMobileMenu
    menuBtn,          \* the page has .mobile-menu-btn
    menuNav,          \* the page has .nav
    navMenuActive,    \* the nav carries the class 'active'
    menuBtnActive,    \* the menu button carries the class 'active'
    menuLast,         \* history: the last click and the classes before it
    \* ---- lazy image loading: initLazyLoading (both versions)
    lazyIO,           \* window.IntersectionObserver exists
    imgCount,         \* the number of img[data-src] elements
    images,           \* image -> [src, data]: its src, whether it has data-src
    imgObserved,      \* the images the observer observes
    imgAssigns,       \* history: image -> assignments to its src (up to 2)
    lazyLast          \* history: image -> its last report, "in", "out" or "none"

slideVars == <<totalSlides, prevArrow, nextArrow, currentSlide, slideActive,
               slideOpacity, dotActive, slideTimers, nextRun, lastTwo>>

aboutVars == <<totalAboutCards, aboutTrack, aboutPrevBtn, aboutNextBtn,
               currentAboutIndex, cardActive, containerWidth, trackTransform,
               aboutTimers, resizeTimeout, startX, currentX, isDragging, gesture,
               aboutFired, ctorTrace>>

dbVars == <<dbWait, dbTimeout, dbTimers, dbBurst, dbRun>>

copyVars == <<toastExists, emailLink, clipboardApi, toastText, toastShown, copied,
              clipboard, bodyTextAreas, pendingCopies, copyTimers, lastCopy,
              toastCall>>

visVars == <<scrollY, innerHeight, visible, observed, visTimers, scrollTimeout,
             checkResizeTimeout, marks, gained>>

modalVars == <<modalExists, modalContent, modalCloseBtn, focusCount, modalActive,
               bodyOverflow, modalShows, activeElement, modalLast>>

\* the controllers added to the five above
navVars == <<navLinks, navActive, navHeader, headerScrolled, navScrollY, navTimeout,
             navTimers, navLast>>

startVars == <<page, startPc, startError, initialized, bound, visMode>>

menuVars == <<menuBtn, menuNav, navMenuActive, menuBtnActive, menuLast>>

lazyVars == <<lazyIO, imgCount, images, imgObserved, imgAssigns, lazyLast>>

moreVars == <<modalVars, navVars, startVars, menuVars, lazyVars>>

vars == <<slideVars, aboutVars, version, dbVars, copyVars, visVars, moreVars>>

-----------------------------------------------------------------------------
(* JavaScript numbers: an integer or NaN.                                  *)

NaN == [nan |-> TRUE, v |-> 0]

Num(n) == [nan |-> FALSE, v |-> n]

\* a < b, a >= b, a === b: every comparison with NaN is false
JsLt(a, b) == ~a.nan /\ ~b.nan /\ a.v < b.v

JsGe(a, b) == ~a.nan /\ ~b.nan /\ a.v >= b.v

JsStrictEq(a, b) == ~a.nan /\ ~b.nan /\ a.v = b.v

\* a + b
JsAdd(a, b) == IF a.nan \/ b.nan THEN NaN ELSE Num(a.v + b.v)

\* An attribute: absent (getAttribute gives null) or a string, kept as its
\* sequence of characters.
NoAttr == [present |-> FALSE, chars |-> <<>>]

Attr(s) == [present |-> TRUE, chars |-> s]

Digits == <<"0", "1", "2", "3", "4", "5", "6", "7", "8", "9">>

IsDigit(c) == \E i \in 1..10 : Digits[i] = c

DigitVal(c) == (CHOOSE i \in 1..10 : Digits[i] = c) - 1

RECURSIVE SkipSpaces(_)
SkipSpaces(s) == IF s # <<>> /\ Head(s) = " " THEN SkipSpaces(Tail(s)) ELSE s

RECURSIVE DigitPrefix(_)
DigitPrefix(s) ==
    IF s # <<>> /\ IsDigit(Head(s)) THEN <<Head(s)>> \o DigitPrefix(Tail(s)) ELSE <<>>

RECURSIVE DecimalValue(_)
DecimalValue(ds) ==
    IF ds = <<>> THEN 0
    ELSE 10 * DecimalValue(SubSeq(ds, 1, Len(ds) - 1)) + DigitVal(ds[Len(ds)])

\* parseInt(getAttribute(..)): null becomes the string "null"; leading blanks
\* are skipped, then an optional sign, then the longest run of decimal digits;
\* no digit at all gives NaN.  (Strings here hold no "0x" prefix.)
ParseInt(a) ==
    LET s    == IF a.present THEN SkipSpaces(a.chars) ELSE <<"n", "u", "l", "l">>
        neg  == s # <<>> /\ Head(s) = "-"
        body == IF s # <<>> /\ Head(s) \in {"-", "+"} THEN Tail(s) ELSE s
        ds   == DigitPrefix(body)
    IN  IF ds = <<>> THEN NaN
        ELSE Num(IF neg THEN 0 - DecimalValue(ds) ELSE DecimalValue(ds))

-----------------------------------------------------------------------------
(* Timers.                                                                 *)

TimerIds(ts) == {ts[i].id : i \in DOMAIN ts}

\* the handle setTimeout returns: one that names no pending timer and that no
\* variable of the program still holds
FreshId(ts, held) ==
    CHOOSE i \in 1..(Len(ts) + Cardinality(held) + 1) :
        /\ i \notin TimerIds(ts) \cup held
        /\ \A j \in 1..(i - 1) : j \in TimerIds(ts) \cup held

\* the handle of a timer whose setTimeout result the program throws away
NoHandle == 0

SetTimeout(ts, id, delay, cb) == Append(ts, [id |-> id, rem |-> delay, cb |-> cb])

RemoveAt(ts, i) == SubSeq(ts, 1, i - 1) \o SubSeq(ts, i + 1, Len(ts))

\* the time to the earliest pending timer (0 when there is none)
MinRem(ts) ==
    IF ts = <<>> THEN 0
    ELSE CHOOSE m \in {ts[i].rem : i \in DOMAIN ts} :
            \A i \in DOMAIN ts : m <= ts[i].rem

\* the amounts by which time may advance: a step that does not pass a pending
\* timer, or exactly up to the earliest one
TickChoices(ts, steps) ==
    IF ts = <<>> THEN steps
    ELSE {d \in steps \cup {MinRem(ts)} : d > 0 /\ d <= MinRem(ts)}

Elapse(ts, d) == [i \in DOMAIN ts |-> [ts[i] EXCEPT !.rem = @ - d]]

\* clearTimeout(id): nothing happens for a handle that was never set
ClearTimeout(ts, id) ==
    IF id = NoHandle THEN ts ELSE SelectSeq(ts, LAMBDA t : t.id # id)

\* the timer that fires next: the oldest of those that are due
IsDue(ts, i) == ts[i].rem = 0 /\ \A j \in 1..(i - 1) : ts[j].rem # 0

-----------------------------------------------------------------------------
(* ProjectCarousel (script.js): the slide carousel.                        *)

MaxSlides == 3

MaxFades == 2

FadeDelay == 150

SlideSteps == {100}

Slides == 0..(totalSlides - 1)

\* the data-slide attributes of the page's indicators (the .nav-dot elements)
DataSlideAttrs ==
    { NoAttr, Attr(<<"0">>), Attr(<<"2">>), Attr(<<"7">>), Attr(<<"-", "1">>),
      Attr(<<" ", "1", "p">>) }

InitSlide ==
    /\ totalSlides \in 0..MaxSlides
    /\ prevArrow \in BOOLEAN
    /\ nextArrow \in BOOLEAN
    /\ currentSlide = Num(0)
    /\ \E shown \in BOOLEAN :
          \* the markup shows the first slide and its indicators, or none yet
          /\ slideActive = IF shown THEN {0} \cap Slides ELSE {}
          /\ dotActive = IF shown /\ totalSlides > 0
                         THEN {a \in DataSlideAttrs : JsStrictEq(ParseInt(a), Num(0))}
                         ELSE {}
    /\ slideOpacity = [s \in Slides |-> ""]
    /\ slideTimers = <<>>
    /\ nextRun = [start |-> Num(0), len |-> 0]
    /\ lastTwo = [op1 |-> "", before1 |-> Num(0), op2 |-> "", before2 |-> Num(0)]

\* a plausible slip: the index is clamped at the last slide, not wrapped
ShowSlideIndexClamped(index, total) ==
    IF JsLt(index, Num(0)) THEN Num(total - 1)
    ELSE IF JsGe(index, Num(total)) THEN Num(total - 1)
    ELSE index

\* "Ensure index is within bounds"
ShowSlideIndex(index, total) ==
    IF JsLt(index, Num(0)) THEN Num(total - 1)
    ELSE IF JsGe(index, Num(total)) THEN Num(0)
    ELSE index

\* this.projectSlides[index] is an element
HasSlide(index) == ~index.nan /\ index.v \in Slides

\* the history kept for the checks: op is "next", "prev" or "goto"
RecordSlideOp(op, index) ==
    /\ nextRun' = IF op = "next"
                  THEN IF nextRun.len >= totalSlides
                       THEN [start |-> currentSlide, len |-> 1]
                       ELSE [nextRun EXCEPT !.len = @ + 1]
                  ELSE [start |-> index, len |-> 0]
    /\ lastTwo' = [op1 |-> op, before1 |-> currentSlide,
                   op2 |-> lastTwo.op1, before2 |-> lastTwo.before1]

showSlide(index0, op) ==
    LET index == ShowSlideIndex(index0, totalSlides)
    IN  /\ Len(slideTimers) < MaxFades
        /\ currentSlide' = index
        /\ slideActive' = {}
        /\ slideOpacity' = [s \in Slides |-> "0"]
        /\ slideTimers' = IF HasSlide(index)
                          THEN SetTimeout(slideTimers, NoHandle, FadeDelay, index.v)
                          ELSE slideTimers
        /\ dotActive' = {a \in DataSlideAttrs : JsStrictEq(ParseInt(a), index)}
        /\ RecordSlideOp(op, index)
        /\ UNCHANGED <<totalSlides, prevArrow, nextArrow>>

showNextSlide == showSlide(JsAdd(currentSlide, Num(1)), "next")

showPrevSlide == showSlide(JsAdd(currentSlide, Num(-1)), "prev")

\* init() returns before binding anything when there is no slide
SlideBound == totalSlides # 0

ClickDot(a) ==
    /\ SlideBound
    /\ showSlide(ParseInt(a), "goto")

ClickPrevArrow ==
    /\ SlideBound
    /\ prevArrow
    /\ showPrevSlide

ClickNextArrow ==
    /\ SlideBound
    /\ nextArrow
    /\ showNextSlide

KeyDownSlide(key) ==
    /\ SlideBound
    /\ \/ key = "ArrowLeft" /\ showPrevSlide
       \/ key = "ArrowRight" /\ showNextSlide

\* the delayed callback of showSlide
FadeIn ==
    \E i \in DOMAIN slideTimers :
        /\ IsDue(slideTimers, i)
        /\ slideActive' = slideActive \cup {slideTimers[i].cb}
        /\ slideOpacity' = [slideOpacity EXCEPT ![slideTimers[i].cb] = "1"]
        /\ slideTimers' = RemoveAt(slideTimers, i)
        /\ UNCHANGED <<totalSlides, prevArrow, nextArrow, currentSlide, dotActive,
                       nextRun, lastTwo>>

TickSlide ==
    /\ slideTimers # <<>>
    /\ \E d \in TickChoices(slideTimers, SlideSteps) :
          slideTimers' = Elapse(slideTimers, d)
    /\ UNCHANGED <<totalSlides, prevArrow, nextArrow, currentSlide, slideActive,
                   slideOpacity, dotActive, nextRun, lastTwo>>

\* the carousel when it is not the controller under check: a page without slides
SlideOff ==
    /\ totalSlides = 0
    /\ prevArrow = FALSE
    /\ nextArrow = FALSE
    /\ currentSlide = Num(0)
    /\ slideActive = {}
    /\ dotActive = {}
    /\ slideOpacity = <<>>
    /\ slideTimers = <<>>
    /\ nextRun = [start |-> Num(0), len |-> 0]
    /\ lastTwo = [op1 |-> "", before1 |-> Num(0), op2 |-> "", before2 |-> Num(0)]

InSlideRange(n) == ~n.nan /\ n.v \in Slides

-----------------------------------------------------------------------------
(* debounce (both versions): the function it returns, and its timer.       *)

\* a plausible slip: the pending timer is not cancelled
DebouncedCallNoClear(ts, timeout, wait, cb, held) ==
    LET id == FreshId(ts, held \cup {timeout})
    IN  [timers |-> SetTimeout(ts, id, wait, cb), timeout |-> id]

\* executedFunction(...args): clearTimeout(timeout); timeout = setTimeout(later, wait).
\* held: the handles other variables hold.  Gives the timers and timeout after it.
DebouncedCall(ts, timeout, wait, cb, held) ==
    LET cleared == ClearTimeout(ts, timeout)
        id      == FreshId(cleared, held)
    IN  [timers |-> SetTimeout(cleared, id, wait, cb), timeout |-> id]

\* later(): clearTimeout(timeout), then func(...args), for the due timer ts[i]
LaterTimers(ts, i, timeout) == ClearTimeout(RemoveAt(ts, i), timeout)

-----------------------------------------------------------------------------
(* AboutCarousel (script.js): the centered-card carousel.                  *)

MaxCards == 3

AboutStartIndex == 1

AboutFirstUpdateDelay == 100

AboutResizeWait == 250

CardGap == 48

SwipeThreshold == 50

CardWidth == 300

ContainerWidths == {800, 1200}

TouchXs == {0, 50, 101}

AboutSteps == {100}

Cards == 0..(totalAboutCards - 1)

InitAbout ==
    /\ totalAboutCards \in 0..MaxCards
    /\ aboutTrack \in BOOLEAN
    /\ aboutPrevBtn \in BOOLEAN
    /\ aboutNextBtn \in BOOLEAN
    /\ currentAboutIndex = AboutStartIndex
    /\ cardActive = {}
    /\ containerWidth \in ContainerWidths
    /\ trackTransform = [set |-> FALSE, px |-> 0]
    \* init(): nothing is scheduled or bound when there is no card
    /\ aboutTimers = IF totalAboutCards = 0 THEN <<>>
                     ELSE SetTimeout(<<>>, NoHandle, AboutFirstUpdateDelay, "update")
    /\ resizeTimeout = NoHandle
    /\ startX = 0
    /\ currentX = 0
    /\ isDragging = FALSE
    /\ gesture = [on |-> FALSE, start |-> 0, last |-> 0]
    /\ aboutFired = "none"
    /\ ctorTrace = [ok |-> TRUE, ops |-> <<>>]

AboutBound == totalAboutCards # 0

\* the offset that centres the active card (the widths are even, so the halves
\* are whole numbers)
CenterOffset(index, cardWidth, container) ==
    LET totalCardWidth == cardWidth + CardGap
        startPosition  == (container \div 2) - (cardWidth \div 2)
    IN  startPosition - (index * totalCardWidth)

\* updateCarousel() with the index it finds
updateCarousel(index) ==
    /\ cardActive' = {c \in Cards : c = index}
    /\ trackTransform' =
          IF totalAboutCards > 0 /\ aboutTrack
          THEN [set |-> TRUE, px |-> CenterOffset(index, CardWidth, containerWidth)]
          ELSE trackTransform

NextCardIndex(index, total) == (index + 1) % total

PrevCardIndex(index, total) == (index - 1 + total) % total

RecordAboutOp(op) ==
    /\ aboutFired' = op
    /\ ctorTrace' =
          IF op = "none" THEN ctorTrace
          ELSE IF ctorTrace.ok /\ Len(ctorTrace.ops) < totalAboutCards + 1
               THEN [ctorTrace EXCEPT !.ops = Append(@, op)]
               ELSE [ok |-> FALSE, ops |-> <<>>]

showNextCard ==
    /\ currentAboutIndex' = NextCardIndex(currentAboutIndex, totalAboutCards)
    /\ updateCarousel(currentAboutIndex')
    /\ RecordAboutOp("next")

showPrevCard ==
    /\ currentAboutIndex' = PrevCardIndex(currentAboutIndex, totalAboutCards)
    /\ updateCarousel(currentAboutIndex')
    /\ RecordAboutOp("prev")

ClickAboutNext ==
    /\ AboutBound
    /\ aboutNextBtn
    /\ showNextCard
    /\ UNCHANGED <<totalAboutCards, aboutTrack, aboutPrevBtn, aboutNextBtn,
                   containerWidth, aboutTimers, resizeTimeout, startX, currentX,
                   isDragging, gesture>>

ClickAboutPrev ==
    /\ AboutBound
    /\ aboutPrevBtn
    /\ showPrevCard
    /\ UNCHANGED <<totalAboutCards, aboutTrack, aboutPrevBtn, aboutNextBtn,
                   containerWidth, aboutTimers, resizeTimeout, startX, currentX,
                   isDragging, gesture>>

\* a resize event: the container gets width w, the debounced handler is called
ResizeAbout(w) ==
    /\ AboutBound
    /\ containerWidth' = w
    /\ LET r == DebouncedCall(aboutTimers, resizeTimeout, AboutResizeWait, "resize", {})
       IN  aboutTimers' = r.timers /\ resizeTimeout' = r.timeout
    /\ RecordAboutOp("none")
    /\ UNCHANGED <<totalAboutCards, aboutTrack, aboutPrevBtn, aboutNextBtn,
                   currentAboutIndex, cardActive, trackTransform, startX, currentX,
                   isDragging, gesture>>

\* a due timer: the first update (setTimeout in init) or the debounced resize
AboutTimerFires ==
    \E i \in DOMAIN aboutTimers :
        /\ IsDue(aboutTimers, i)
        /\ aboutTimers' = IF aboutTimers[i].cb = "resize"
                          THEN LaterTimers(aboutTimers, i, resizeTimeout)
                          ELSE RemoveAt(aboutTimers, i)
        /\ updateCarousel(currentAboutIndex)
        /\ RecordAboutOp("none")
        /\ UNCHANGED <<totalAboutCards, aboutTrack, aboutPrevBtn, aboutNextBtn,
                       currentAboutIndex, containerWidth, resizeTimeout, startX,
                       currentX, isDragging, gesture>>

TouchStart(x) ==
    /\ AboutBound
    /\ aboutTrack
    /\ ~gesture.on
    /\ startX' = x
    /\ isDragging' = TRUE
    /\ gesture' = [on |-> TRUE, start |-> x, last |-> x]
    /\ RecordAboutOp("none")
    /\ UNCHANGED <<totalAboutCards, aboutTrack, aboutPrevBtn, aboutNextBtn,
                   currentAboutIndex, cardActive, containerWidth, trackTransform,
                   aboutTimers, resizeTimeout, currentX>>

TouchMove(x) ==
    /\ AboutBound
    /\ aboutTrack
    /\ gesture.on
    /\ currentX' = IF isDragging THEN x ELSE currentX
    /\ gesture' = [gesture EXCEPT !.last = x]
    /\ RecordAboutOp("none")
    /\ UNCHANGED <<totalAboutCards, aboutTrack, aboutPrevBtn, aboutNextBtn,
                   currentAboutIndex, cardActive, containerWidth, trackTransform,
                   aboutTimers, resizeTimeout, startX, isDragging>>

Abs(n) == IF n < 0 THEN 0 - n ELSE n

\* the transition touchend makes for diff = startX - currentX
SwipeTransition(diff) ==
    IF Abs(diff) > SwipeThreshold
    THEN IF diff > 0 THEN "next" ELSE "prev"
    ELSE "none"

TouchEnd ==
    /\ AboutBound
    /\ aboutTrack
    /\ gesture.on
    /\ gesture' = [gesture EXCEPT !.on = FALSE]
    /\ LET todo == IF isDragging THEN SwipeTransition(startX - currentX) ELSE "none"
       IN  \/ todo = "next" /\ showNextCard
           \/ todo = "prev" /\ showPrevCard
           \/ /\ todo = "none"
              /\ RecordAboutOp("none")
              /\ UNCHANGED <<currentAboutIndex, cardActive, trackTransform>>
    /\ isDragging' = FALSE
    /\ UNCHANGED <<totalAboutCards, aboutTrack, aboutPrevBtn, aboutNextBtn,
                   containerWidth, aboutTimers, resizeTimeout, startX, currentX>>

TickAbout ==
    /\ aboutTimers # <<>>
    /\ \E d \in TickChoices(aboutTimers, AboutSteps) :
          aboutTimers' = Elapse(aboutTimers, d)
    /\ RecordAboutOp("none")
    /\ UNCHANGED <<totalAboutCards, aboutTrack, aboutPrevBtn, aboutNextBtn,
                   currentAboutIndex, cardActive, containerWidth, trackTransform,
                   resizeTimeout, startX, currentX, isDragging, gesture>>

\* the carousel when it is not the controller under check: a page without cards
AboutOff ==
    /\ totalAboutCards = 0
    /\ aboutTrack = FALSE
    /\ aboutPrevBtn = FALSE
    /\ aboutNextBtn = FALSE
    /\ currentAboutIndex = AboutStartIndex
    /\ cardActive = {}
    /\ containerWidth = 0
    /\ trackTransform = [set |-> FALSE, px |-> 0]
    /\ aboutTimers = <<>>
    /\ resizeTimeout = NoHandle
    /\ startX = 0
    /\ currentX = 0
    /\ isDragging = FALSE
    /\ gesture = [on |-> FALSE, start |-> 0, last |-> 0]
    /\ aboutFired = "none"
    /\ ctorTrace = [ok |-> TRUE, ops |-> <<>>]

-----------------------------------------------------------------------------
(* A debounced function on its own: debounce(func, wait) called with        *)
(* arguments, func recording what it is invoked with.                      *)

MaxBurst == 3

DebounceArgs == {"a", "b", "c"}

DebounceSteps == {50}

\* the waits the two scripts pass to debounce
DebounceWaits(v) == IF v = "v1" THEN {50, 100, 250} ELSE {10}

Min(a, b) == IF a <= b THEN a ELSE b

InitDebounce ==
    /\ version \in {"v1", "v2"}
    /\ dbWait \in DebounceWaits(version)
    /\ dbTimeout = NoHandle
    /\ dbTimers = <<>>
    /\ dbBurst = [calls |-> 0, args |-> "", since |-> 0]
    /\ dbRun = [count |-> 0, args |-> "", since |-> 0]

\* executedFunction(arg)
CallDebounced(arg) ==
    /\ dbBurst.calls < MaxBurst \/ dbTimers = <<>>
    /\ LET r == DebouncedCall(dbTimers, dbTimeout, dbWait, arg, {})
       IN  dbTimers' = r.timers /\ dbTimeout' = r.timeout
    /\ dbBurst' = [calls |-> IF dbTimers = <<>> THEN 1 ELSE dbBurst.calls + 1,
                   args |-> arg, since |-> 0]
    /\ dbRun' = IF dbTimers = <<>> THEN [count |-> 0, args |-> "", since |-> 0]
                ELSE dbRun
    /\ UNCHANGED <<version, dbWait>>

\* later(): func(...args) is invoked
DebounceFires ==
    \E i \in DOMAIN dbTimers :
        /\ IsDue(dbTimers, i)
        /\ dbTimers' = LaterTimers(dbTimers, i, dbTimeout)
        /\ dbRun' = [count |-> dbRun.count + 1, args |-> dbTimers[i].cb,
                     since |-> dbBurst.since]
        /\ UNCHANGED <<version, dbWait, dbTimeout, dbBurst>>

TickDebounce ==
    /\ dbTimers # <<>>
    /\ \E d \in TickChoices(dbTimers, DebounceSteps) :
          /\ dbTimers' = Elapse(dbTimers, d)
          /\ dbBurst' = [dbBurst EXCEPT !.since = Min(@ + d, dbWait)]
    /\ UNCHANGED <<version, dbWait, dbTimeout, dbRun>>

DebounceOff ==
    /\ dbWait = 0
    /\ dbTimeout = NoHandle
    /\ dbTimers = <<>>
    /\ dbBurst = [calls |-> 0, args |-> "", since |-> 0]
    /\ dbRun = [count |-> 0, args |-> "", since |-> 0]

-----------------------------------------------------------------------------
(* copyToClipboard, showToast and the click handlers that use them         *)
(* (both versions).                                                        *)

MaxPendingCopies == 1

MaxCopyTimers == 3

CopySteps == {1000}

EmailAddress ==
    <<"v", "e", "d", "p", "a", "w", "a", "r", "1", "4", "1", "0", "@",
      "g", "m", "a", "i", "l", ".", "c", "o", "m">>

\* the data-contact attributes of the page's .contact-copyable buttons
ContactAttrs == { Attr(EmailAddress), Attr(<<"5", "5", "5", "0", "1", "0", "0">>), NoAttr }

\* showToast's default duration
ToastDuration(v) == IF v = "v1" THEN 2000 ELSE 2500

\* the delay before a contact button loses 'copied'
CopiedDelay(v) == IF v = "v1" THEN 600 ELSE 1500

\* contactInfo.includes(c)
Includes(chars, c) == \E i \in DOMAIN chars : chars[i] = c

\* what writeText(text) puts on the clipboard: null is converted to "null"
WrittenText(a) == IF a.present THEN a.chars ELSE <<"n", "u", "l", "l">>

\* what textArea.value = text holds: null is converted to ""
TextAreaValue(a) == IF a.present THEN a.chars ELSE <<>>

NoMessage == <<>>

NoCopy ==
    [done |-> FALSE, handler |-> "", attr |-> NoAttr, primary |-> "", exec |-> "",
     created |-> 0, appended |-> 0, removed |-> 0, ret |-> FALSE, toasted |-> FALSE]

InitCopy ==
    /\ version \in {"v1", "v2"}
    /\ toastExists \in BOOLEAN
    /\ emailLink \in BOOLEAN
    /\ clipboardApi \in BOOLEAN
    /\ toastText = NoMessage
    /\ toastShown = FALSE
    /\ copied = {}
    /\ clipboard = [set |-> FALSE, text |-> <<>>]
    /\ bodyTextAreas = 0
    /\ pendingCopies = <<>>
    /\ copyTimers = <<>>
    /\ lastCopy = NoCopy
    /\ toastCall = [made |-> FALSE, since |-> 0]

\* a plausible slip: the catch branch forgets to remove the textarea
FallbackTryLeaking(exec) ==
    IF exec = "throws" THEN [removed |-> 0, ret |-> FALSE]
    ELSE [removed |-> 1, ret |-> TRUE]

\* the inner try/catch of copyToClipboard; exec is what
\* document.execCommand('copy') does: returns "true", returns "false", "throws"
FallbackTry(exec) ==
    IF exec = "throws" THEN [removed |-> 1, ret |-> FALSE]
    ELSE [removed |-> 1, ret |-> TRUE]

\* copyToClipboard(text): primary is "ok" (writeText resolved), "rejected", or
\* "unavailable" (navigator.clipboard is undefined, a TypeError inside the try)
CopyOutcome(primary, exec) ==
    IF primary = "ok"
    THEN [created |-> 0, appended |-> 0, removed |-> 0, ret |-> TRUE]
    ELSE LET f == FallbackTry(exec)
         IN  [created |-> 1, appended |-> 1, removed |-> f.removed, ret |-> f.ret]

\* the email handler after copyToClipboard: the message it shows, if any
EmailMessage(v, success) ==
    IF v = "v1"
    THEN IF success THEN <<"Email", "copied">> ELSE NoMessage
    ELSE IF success THEN <<"Email", "copied", "to", "clipboard">>
         ELSE <<"Failed", "to", "copy", "email">>

\* a plausible slip: the kind of contact is told by a "." instead of the "@"
ContactReactionByDot(v, a, success) ==
    IF ~success
    THEN [copied |-> FALSE, uncopy |-> FALSE,
          toast |-> <<"Copy", "failed.", "Please", "try", "again.">>]
    ELSE IF ~a.present
    THEN [copied |-> TRUE, uncopy |-> FALSE, toast |-> NoMessage]
    ELSE [copied |-> TRUE, uncopy |-> TRUE,
          toast |-> <<IF Includes(a.chars, ".") THEN "Phone" ELSE "Email">>
                    \o (IF v = "v1" THEN <<"copied", "to", "clipboard!">>
                        ELSE <<"copied", "to", "clipboard">>)]

\* a contact button's handler after copyToClipboard: the class it adds, the
\* message it shows, the timer it sets.  Without data-contact, contactInfo is
\* null and contactInfo.includes throws after 'copied' was added.
ContactReaction(v, a, success) ==
    IF ~success
    THEN [copied |-> FALSE, uncopy |-> FALSE,
          toast |-> <<"Copy", "failed.", "Please", "try", "again.">>]
    ELSE IF ~a.present
    THEN [copied |-> TRUE, uncopy |-> FALSE, toast |-> NoMessage]
    ELSE [copied |-> TRUE, uncopy |-> TRUE,
          toast |-> <<IF Includes(a.chars, "@") THEN "Email" ELSE "Phone">>
                    \o (IF v = "v1" THEN <<"copied", "to", "clipboard!">>
                        ELSE <<"copied", "to", "clipboard">>)]

\* a plausible slip: showToast sets no timer
ToastTimersNone(ts, v) == ts

\* showToast's setTimeout
ToastTimers(ts, v) ==
    SetTimeout(ts, NoHandle, ToastDuration(v), [kind |-> "hide", button |-> NoAttr])

\* the rest of a click handler, from the point where copyToClipboard settles
FinishCopy(call, primary, exec) ==
    LET out   == CopyOutcome(primary, exec)
        react == IF call.handler = "email"
                 THEN [copied |-> FALSE, uncopy |-> FALSE,
                       toast |-> EmailMessage(version, out.ret)]
                 ELSE ContactReaction(version, call.attr, out.ret)
        shows == react.toast # NoMessage /\ toastExists
        ts1   == IF shows THEN ToastTimers(copyTimers, version) ELSE copyTimers
    IN  /\ bodyTextAreas' = bodyTextAreas + out.appended - out.removed
        /\ clipboard' = IF primary = "ok"
                        THEN [set |-> TRUE, text |-> WrittenText(call.attr)]
                        ELSE IF exec = "true"
                        THEN [set |-> TRUE, text |-> TextAreaValue(call.attr)]
                        ELSE clipboard
        /\ copied' = IF react.copied THEN copied \cup {call.attr} ELSE copied
        /\ toastText' = IF shows THEN react.toast ELSE toastText
        /\ toastShown' = IF shows THEN TRUE ELSE toastShown
        /\ copyTimers' = IF react.uncopy
                         THEN SetTimeout(ts1, NoHandle, CopiedDelay(version),
                                         [kind |-> "uncopy", button |-> call.attr])
                         ELSE ts1
        /\ toastCall' = IF shows THEN [made |-> TRUE, since |-> 0] ELSE toastCall
        /\ lastCopy' = [done |-> TRUE, handler |-> call.handler,
                        attr |-> call.attr, primary |-> primary,
                        exec |-> IF primary = "ok" THEN "" ELSE exec,
                        created |-> out.created, appended |-> out.appended,
                        removed |-> out.removed, ret |-> out.ret,
                        toasted |-> react.toast # NoMessage]

\* a click: copyToClipboard starts; without navigator.clipboard the whole
\* handler runs at once, otherwise it waits for writeText
ClickCopy(call) ==
    /\ Len(pendingCopies) < MaxPendingCopies
    /\ Len(copyTimers) + 2 * (Len(pendingCopies) + 1) <= MaxCopyTimers
    /\ \/ /\ clipboardApi
          /\ pendingCopies' = Append(pendingCopies, call)
          /\ lastCopy' = NoCopy
          /\ UNCHANGED <<toastText, toastShown, copied, clipboard, bodyTextAreas,
                         copyTimers, toastCall>>
       \/ /\ ~clipboardApi
          /\ \E exec \in {"true", "false", "throws"} :
                FinishCopy(call, "unavailable", exec)
          /\ UNCHANGED pendingCopies
    /\ UNCHANGED <<version, toastExists, emailLink, clipboardApi>>

ClickEmail ==
    /\ emailLink
    /\ ClickCopy([handler |-> "email", attr |-> Attr(EmailAddress)])

ClickContact(a) == ClickCopy([handler |-> "contact", attr |-> a])

\* writeText resolves
WriteTextResolves ==
    \E i \in DOMAIN pendingCopies :
        /\ FinishCopy(pendingCopies[i], "ok", "")
        /\ pendingCopies' = RemoveAt(pendingCopies, i)
        /\ UNCHANGED <<version, toastExists, emailLink, clipboardApi>>

\* writeText rejects: the fallback runs
WriteTextRejects ==
    \E i \in DOMAIN pendingCopies :
        /\ \E exec \in {"true", "false", "throws"} :
              FinishCopy(pendingCopies[i], "rejected", exec)
        /\ pendingCopies' = RemoveAt(pendingCopies, i)
        /\ UNCHANGED <<version, toastExists, emailLink, clipboardApi>>

\* a due timer: the toast is hidden, or a button loses 'copied'
CopyTimerFires ==
    \E i \in DOMAIN copyTimers :
        /\ IsDue(copyTimers, i)
        /\ copyTimers' = RemoveAt(copyTimers, i)
        /\ toastShown' = IF copyTimers[i].cb.kind = "hide" THEN FALSE ELSE toastShown
        /\ copied' = IF copyTimers[i].cb.kind = "uncopy"
                     THEN copied \ {copyTimers[i].cb.button} ELSE copied
        /\ lastCopy' = NoCopy
        /\ UNCHANGED <<version, toastExists, emailLink, clipboardApi, toastText,
                       clipboard, bodyTextAreas, pendingCopies, toastCall>>

TickCopy ==
    /\ copyTimers # <<>>
    /\ \E d \in TickChoices(copyTimers, CopySteps) :
          /\ copyTimers' = Elapse(copyTimers, d)
          /\ toastCall' = [toastCall EXCEPT
                             !.since = Min(@ + d, ToastDuration(version))]
    /\ lastCopy' = NoCopy
    /\ UNCHANGED <<version, toastExists, emailLink, clipboardApi, toastText,
                   toastShown, copied, clipboard, bodyTextAreas, pendingCopies>>

CopyOff ==
    /\ toastExists = FALSE
    /\ emailLink = FALSE
    /\ clipboardApi = FALSE
    /\ toastText = NoMessage
    /\ toastShown = FALSE
    /\ copied = {}
    /\ clipboard = [set |-> FALSE, text |-> <<>>]
    /\ bodyTextAreas = 0
    /\ pendingCopies = <<>>
    /\ copyTimers = <<>>
    /\ lastCopy = NoCopy
    /\ toastCall = [made |-> FALSE, since |-> 0]

-----------------------------------------------------------------------------
(* Scroll animations: polling in v1 (ScrollAnimations), observers in v2     *)
(* (initScrollAnimations).                                                 *)

MaxVisCards == 2

MaxVisTimers == 6

ViewportOffset == 100

ScrollCheckWait == 50

ResizeCheckWait == 100

CardStagger == 100

GridStagger == 100

GridColumns == 3

VisSteps == {50}

ScrollYs == {0, 600}

InnerHeights == {500, 900}

\* the registered elements, in the order setupAnimations pushes them (v1) and
\* in document order (v2): a section header, then the cards
VisElements ==
    <<[kind |-> "section-header", index |-> 0]>>
    \o [i \in 1..MaxVisCards |-> [kind |-> "card", index |-> i - 1]]

VisElementSet == {VisElements[i] : i \in DOMAIN VisElements}

\* the page's layout: where an element lies in the document
ElementTop(e) == IF e.kind = "section-header" THEN 0 ELSE 600 + 300 * e.index

ElementHeight(e) == IF e.kind = "section-header" THEN 100 ELSE 200

\* element.getBoundingClientRect()
BoundingRect(e, y) ==
    [top |-> ElementTop(e) - y, bottom |-> ElementTop(e) - y + ElementHeight(e)]

isInViewport(e, offset, y, h) ==
    LET rect == BoundingRect(e, y)
    IN  rect.top <= h - offset /\ rect.bottom >= offset

\* v1, setupAnimations: the delay pushed with the element
AnimationDelay(e) == IF e.kind = "section-header" THEN 0 ELSE e.index * CardStagger

\* v2, itemObserver: the delay from the element's position among the grid items
GridDelay(e) == (e.index % GridColumns) * GridStagger

MarkTimer(e) == [kind |-> "mark", el |-> e]

CheckTimer(k) == [kind |-> k, el |-> VisElements[1]]

\* checkAnimations(): a timer for every registered element that is in the
\* viewport and does not carry 'visible', from element k on
RECURSIVE CheckFrom(_, _, _, _, _)
CheckFrom(k, ts, vis, y, h) ==
    IF k > Len(VisElements) THEN ts
    ELSE LET e == VisElements[k]
         IN  CheckFrom(k + 1,
                       IF isInViewport(e, ViewportOffset, y, h) /\ e \notin vis
                       THEN SetTimeout(ts, NoHandle, AnimationDelay(e), MarkTimer(e))
                       ELSE ts,
                       vis, y, h)

checkAnimations(ts, vis, y, h) == CheckFrom(1, ts, vis, y, h)

\* a plausible slip: the class is toggled, not added
MarkVisibleToggling(vis, e) == IF e \in vis THEN vis \ {e} ELSE vis \cup {e}

\* element.classList.add('visible')
MarkVisible(vis, e) == vis \cup {e}

InitVis ==
    /\ version \in {"v1", "v2"}
    /\ scrollY = 0
    /\ innerHeight \in InnerHeights
    /\ visible = {}
    /\ observed = IF version = "v2" THEN VisElementSet ELSE {}
    \* v1: the constructor's first checkAnimations()
    /\ visTimers = IF version = "v1"
                   THEN checkAnimations(<<>>, {}, 0, innerHeight)
                   ELSE <<>>
    /\ scrollTimeout = NoHandle
    /\ checkResizeTimeout = NoHandle
    /\ marks = [e \in VisElementSet |-> 0]
    /\ gained = [e \in VisElementSet |-> 0]

\* v1: a scroll event, the debounced check is called
ScrollVis(y) ==
    /\ version = "v1"
    /\ Len(visTimers) + Len(VisElements) < MaxVisTimers
    /\ scrollY' = y
    /\ LET r == DebouncedCall(visTimers, scrollTimeout, ScrollCheckWait,
                              CheckTimer("scrollCheck"), {checkResizeTimeout})
       IN  visTimers' = r.timers /\ scrollTimeout' = r.timeout
    /\ UNCHANGED <<version, innerHeight, visible, observed, checkResizeTimeout,
                   marks, gained>>

\* v1: a resize event, the debounced check is called
ResizeVis(h) ==
    /\ version = "v1"
    /\ Len(visTimers) + Len(VisElements) < MaxVisTimers
    /\ innerHeight' = h
    /\ LET r == DebouncedCall(visTimers, checkResizeTimeout, ResizeCheckWait,
                              CheckTimer("resizeCheck"), {scrollTimeout})
       IN  visTimers' = r.timers /\ checkResizeTimeout' = r.timeout
    /\ UNCHANGED <<version, scrollY, visible, observed, scrollTimeout, marks, gained>>

\* v1: a debounced check runs
CheckTimerFires ==
    \E i \in DOMAIN visTimers :
        /\ IsDue(visTimers, i)
        /\ visTimers[i].cb.kind # "mark"
        /\ LET handle == IF visTimers[i].cb.kind = "scrollCheck"
                         THEN scrollTimeout ELSE checkResizeTimeout
           IN  visTimers' = checkAnimations(LaterTimers(visTimers, i, handle),
                                            visible, scrollY, innerHeight)
        /\ UNCHANGED <<version, scrollY, innerHeight, visible, observed,
                       scrollTimeout, checkResizeTimeout, marks, gained>>

\* both versions: a delayed class addition runs
MarkTimerFires ==
    \E i \in DOMAIN visTimers :
        /\ IsDue(visTimers, i)
        /\ visTimers[i].cb.kind = "mark"
        /\ LET e == visTimers[i].cb.el
           IN  /\ visible' = MarkVisible(visible, e)
               /\ marks' = [marks EXCEPT ![e] = Min(@ + 1, 2)]
               /\ gained' = [gained EXCEPT
                               ![e] = IF e \notin visible /\ e \in visible'
                                      THEN @ + 1 ELSE @]
        /\ visTimers' = RemoveAt(visTimers, i)
        /\ UNCHANGED <<version, scrollY, innerHeight, observed, scrollTimeout,
                       checkResizeTimeout>>

\* a plausible slip: the element stays under observation
UnobserveNothing(obs, e) == obs

\* v2: headerObserver.unobserve(entry.target), itemObserver.unobserve(entry.target)
Unobserve(obs, e) == obs \ {e}

\* v2: an observer reports an entry for an element it observes
ObserverReports(e, isIntersecting) ==
    /\ version = "v2"
    /\ e \in observed
    /\ IF ~isIntersecting
       THEN UNCHANGED <<visible, observed, visTimers, marks, gained>>
       ELSE IF e.kind = "section-header"
       THEN \* headerObserver
            /\ visible' = MarkVisible(visible, e)
            /\ marks' = [marks EXCEPT ![e] = Min(@ + 1, 2)]
            /\ gained' = [gained EXCEPT
                            ![e] = IF e \notin visible /\ e \in visible'
                                   THEN @ + 1 ELSE @]
            /\ observed' = Unobserve(observed, e)
            /\ UNCHANGED visTimers
       ELSE \* itemObserver
            /\ visTimers' = SetTimeout(visTimers, NoHandle, GridDelay(e), MarkTimer(e))
            /\ observed' = Unobserve(observed, e)
            /\ UNCHANGED <<visible, marks, gained>>
    /\ UNCHANGED <<version, scrollY, innerHeight, scrollTimeout, checkResizeTimeout>>

TickVis ==
    /\ visTimers # <<>>
    /\ \E d \in TickChoices(visTimers, VisSteps) : visTimers' = Elapse(visTimers, d)
    /\ UNCHANGED <<version, scrollY, innerHeight, visible, observed, scrollTimeout,
                   checkResizeTimeout, marks, gained>>

VisOff ==
    /\ scrollY = 0
    /\ innerHeight = 0
    /\ visible = {}
    /\ observed = {}
    /\ visTimers = <<>>
    /\ scrollTimeout = NoHandle
    /\ checkResizeTimeout = NoHandle
    /\ marks = <<>>
    /\ gained = <<>>

-----------------------------------------------------------------------------
(* The image modal: ImageModal (v1), initImageModal and trapFocus (v2).    *)

MaxFocusable == 2

\* the elements that open the modal (.expand-image-btn in v1, the project
\* images in v2); hasSource: v1 finds the button's .project-image-container
\* and its .project-image-placeholder
ModalTriggers ==
    { [id |-> "a", hasSource |-> TRUE], [id |-> "b", hasSource |-> FALSE] }

\* where a click on the modal lands: the modal element itself (the backdrop),
\* something inside its content, or its close button
ModalTargets == {"modal", "content", "close"}

NoModalEvent == [event |-> "none", wasActive |-> FALSE, from |-> 0, shift |-> FALSE]

InitModal ==
    /\ version \in {"v1", "v2"}
    /\ modalExists \in BOOLEAN
    /\ modalContent \in (IF modalExists THEN BOOLEAN ELSE {FALSE})
    /\ modalCloseBtn \in (IF modalExists THEN BOOLEAN ELSE {FALSE})
    \* the close button is one of the modal's focusable descendants
    /\ focusCount \in (IF modalExists
                       THEN (IF modalCloseBtn THEN 1 ELSE 0)..MaxFocusable
                       ELSE {0})
    /\ modalActive = FALSE
    /\ bodyOverflow = ""
    /\ modalShows = ""
    /\ activeElement = 0
    /\ modalLast = NoModalEvent

\* init() wires the modal: v1 needs the modal, v2 the modal and its image
ModalBound(v) == modalExists /\ (v = "v2" => modalContent)

\* openModal(): classList.add('active'), body overflow 'hidden'
openModal == [active |-> TRUE, overflow |-> "hidden"]

\* a plausible slip: closing forgets to release the page scroll
closeModalKeepsLock == [active |-> FALSE, overflow |-> "hidden"]

\* closeModal(): classList.remove('active'), body overflow ''
closeModal == [active |-> FALSE, overflow |-> ""]

\* v1's expand handler throws before openModal() when it dereferences a missing
\* container, placeholder or modal content; v2's handler dereferences nothing
\* that can be missing
ExpandThrows(v, t) == v = "v1" /\ (~t.hasSource \/ ~modalContent)

RecordModalEvent(e, shift) ==
    modalLast' = [event |-> e, wasActive |-> modalActive, from |-> activeElement,
                  shift |-> shift]

\* a click on an element that opens the modal
ClickExpand(t) ==
    /\ ModalBound(version)
    /\ IF ExpandThrows(version, t)
       THEN UNCHANGED <<modalShows, modalActive, bodyOverflow>>
       ELSE /\ modalShows' = t.id
            /\ modalActive' = openModal.active
            /\ bodyOverflow' = openModal.overflow
    /\ RecordModalEvent("open", FALSE)
    /\ UNCHANGED <<version, modalExists, modalContent, modalCloseBtn, focusCount,
                   activeElement>>

\* a plausible slip: the modal's click handler does not look at the target
ModalClickClosesAnyTarget(target) == TRUE

\* the modal's click handler: e.target === modal
ModalClickCloses(target) == target = "modal"

\* a click inside the modal: on the close button its own handler runs, then
\* the click bubbles to the modal's handler
ClickModal(target) ==
    /\ ModalBound(version)
    /\ target = "close" => modalCloseBtn
    /\ IF target = "close" \/ ModalClickCloses(target)
       THEN /\ modalActive' = closeModal.active
            /\ bodyOverflow' = closeModal.overflow
       ELSE UNCHANGED <<modalActive, bodyOverflow>>
    /\ RecordModalEvent(target, FALSE)
    /\ UNCHANGED <<version, modalExists, modalContent, modalCloseBtn, focusCount,
                   modalShows, activeElement>>

\* the document's keydown handler of the modal
KeyDownEscape ==
    /\ IF ModalBound(version) /\ modalActive
       THEN /\ modalActive' = closeModal.active
            /\ bodyOverflow' = closeModal.overflow
       ELSE UNCHANGED <<modalActive, bodyOverflow>>
    /\ RecordModalEvent("Escape", FALSE)
    /\ UNCHANGED <<version, modalExists, modalContent, modalCloseBtn, focusCount,
                   modalShows, activeElement>>

\* The tab order of the document: position 0 is the page before the modal,
\* 1..k are the modal's focusable descendants, k + 1 is the page after it.
\* Without preventDefault the browser moves focus one position on (Tab) or
\* back (Shift+Tab), going round at the ends.
TabDefault(active, shift, k) ==
    IF shift THEN (active + k + 1) % (k + 2) ELSE (active + 1) % (k + 2)

\* a plausible slip: only the forward direction wraps
trapFocusForwardOnly(active, shift, k) ==
    IF ~shift /\ active = k
    THEN [prevented |-> TRUE, focus |-> 1]
    ELSE [prevented |-> FALSE, focus |-> active]

\* trapFocus's keydown handler for Tab, focus being on the modal's focusable
\* descendant number active of k: firstElement is number 1, lastElement number k
trapFocus(active, shift, k) ==
    IF shift
    THEN IF active = 1
         THEN [prevented |-> TRUE, focus |-> k]
         ELSE [prevented |-> FALSE, focus |-> active]
    ELSE IF active = k
         THEN [prevented |-> TRUE, focus |-> 1]
         ELSE [prevented |-> FALSE, focus |-> active]

\* the modal has the keydown listener of trapFocus
TrapBound(v) == v = "v2" /\ modalExists

\* a Tab key press; the listener on the modal hears it when focus is inside
KeyDownTab(shift) ==
    /\ LET inside == activeElement \in 1..focusCount
           r      == trapFocus(activeElement, shift, focusCount)
       IN  activeElement' =
              IF TrapBound(version) /\ inside /\ r.prevented
              THEN r.focus
              ELSE TabDefault(activeElement, shift, focusCount)
    /\ RecordModalEvent("Tab", shift)
    /\ UNCHANGED <<version, modalExists, modalContent, modalCloseBtn, focusCount,
                   modalActive, bodyOverflow, modalShows>>

\* focus is put on an element by other means (pointer, script)
FocusElement(i) ==
    /\ i \in 0..(focusCount + 1)
    /\ activeElement' = i
    /\ RecordModalEvent("focus", FALSE)
    /\ UNCHANGED <<version, modalExists, modalContent, modalCloseBtn, focusCount,
                   modalActive, bodyOverflow, modalShows>>

\* the modal when it is not the controller under check: a page without it
ModalOff ==
    /\ modalExists = FALSE
    /\ modalContent = FALSE
    /\ modalCloseBtn = FALSE
    /\ focusCount = 0
    /\ modalActive = FALSE
    /\ bodyOverflow = ""
    /\ modalShows = ""
    /\ activeElement = 0
    /\ modalLast = NoModalEvent

-----------------------------------------------------------------------------
(* Navigation highlight: NavigationHighlight (v1, polling on scroll),      *)
(* initActiveNavigation (v2, an IntersectionObserver).                     *)

MaxEntries == 2

NavDebounceWait == 50

HeaderScrollLimit == 50

NavScrollOffset == 200

NavSteps == {25}

NavScrollYs == {0, 250, 800, 2000}

\* the page's sections (section[id]) in document order: id, offsetTop,
\* offsetHeight; "a" and "b" overlap, "x" has no nav link
NavSections ==
    << [id |-> <<"a">>, top |-> 0, height |-> 500],
       [id |-> <<"b">>, top |-> 400, height |-> 500],
       [id |-> <<"x">>, top |-> 900, height |-> 300] >>

\* the href attributes of the nav links, pairwise distinct
NavLinkHrefs == << <<"#", "a">>, <<"#", "b">>, <<"#", "a", "b">>, <<"#">> >>

NoSection == <<>>

InitNav ==
    /\ version \in {"v1", "v2"}
    /\ navLinks \in {NavLinkHrefs, SubSeq(NavLinkHrefs, 1, 2), <<>>}
    \* the markup marks no link or one link
    /\ navActive \in {{}} \cup {{l} : l \in DOMAIN navLinks}
    /\ navHeader \in BOOLEAN
    /\ headerScrolled = FALSE
    /\ navScrollY = 0
    /\ navTimeout = NoHandle
    /\ navTimers = <<>>
    /\ navLast = [stepped |-> FALSE, section |-> NoSection]

\* `#${sectionId}`
Fragment(id) == <<"#">> \o id

\* a plausible slip: the links that do not match keep their class
HighlightLinksNoRemove(active, links, id) ==
    active \cup {l \in DOMAIN links : links[l] = Fragment(id)}

\* navLinks.forEach: remove 'active', add it when href === `#${id}`
HighlightLinks(active, links, id) ==
    (active \ DOMAIN links) \cup {l \in DOMAIN links : links[l] = Fragment(id)}

\* v1: the section contains scrollPosition
SectionAt(sec, scrollPosition) ==
    scrollPosition >= sec.top /\ scrollPosition < sec.top + sec.height

\* sections.forEach of highlightNavigation from section number i on; st is
\* [active, section]: the links carrying 'active' and the last section that
\* reached the inner loop
RECURSIVE HighlightFrom(_, _, _, _)
HighlightFrom(i, st, links, scrollPosition) ==
    IF i > Len(NavSections) THEN st
    ELSE HighlightFrom(i + 1,
            IF SectionAt(NavSections[i], scrollPosition)
            THEN [active |-> HighlightLinks(st.active, links, NavSections[i].id),
                  section |-> NavSections[i].id]
            ELSE st,
            links, scrollPosition)

highlightNavigation(active, links, y) ==
    HighlightFrom(1, [active |-> active, section |-> NoSection], links,
                  y + NavScrollOffset)

\* handleHeaderScroll(): header?.classList add / remove 'scrolled'
handleHeaderScroll(scrolled, header, y) ==
    IF header THEN y > HeaderScrollLimit ELSE scrolled

\* v1: a scroll event calls the debounced handler
NavScroll(y) ==
    /\ version = "v1"
    /\ navScrollY' = y
    /\ LET r == DebouncedCall(navTimers, navTimeout, NavDebounceWait, "highlight", {})
       IN  navTimers' = r.timers /\ navTimeout' = r.timeout
    /\ UNCHANGED <<version, navLinks, navActive, navHeader, headerScrolled, navLast>>

\* v1: the debounced handler runs highlightNavigation and handleHeaderScroll
NavTimerFires ==
    \E i \in DOMAIN navTimers :
        /\ IsDue(navTimers, i)
        /\ navTimers' = LaterTimers(navTimers, i, navTimeout)
        /\ LET st == highlightNavigation(navActive, navLinks, navScrollY)
           IN  /\ navActive' = st.active
               /\ navLast' = [stepped |-> st.section # NoSection,
                              section |-> st.section]
        /\ headerScrolled' = handleHeaderScroll(headerScrolled, navHeader, navScrollY)
        /\ UNCHANGED <<version, navLinks, navHeader, navScrollY, navTimeout>>

TickNav ==
    /\ navTimers # <<>>
    /\ \E d \in TickChoices(navTimers, NavSteps) : navTimers' = Elapse(navTimers, d)
    /\ UNCHANGED <<version, navLinks, navActive, navHeader, headerScrolled,
                   navScrollY, navTimeout, navLast>>

\* v2: the observer callback, entries.forEach from entry number i on
RECURSIVE EntriesFrom(_, _, _, _)
EntriesFrom(i, st, links, entries) ==
    IF i > Len(entries) THEN st
    ELSE EntriesFrom(i + 1,
            IF entries[i].isIntersecting
            THEN [active |-> HighlightLinks(st.active, links, entries[i].id),
                  section |-> entries[i].id]
            ELSE st,
            links, entries)

\* the observer is created only when there are sections and nav links
NavObserverBound(v, links) == v = "v2" /\ Len(NavSections) # 0 /\ Len(links) # 0

NavEntry == {[id |-> NavSections[i].id, isIntersecting |-> b] :
                i \in DOMAIN NavSections, b \in BOOLEAN}

NavEntries == UNION {[1..n -> NavEntry] : n \in 1..MaxEntries}

\* v2: the observer reports entries
NavObserve(entries) ==
    /\ NavObserverBound(version, navLinks)
    /\ LET st == EntriesFrom(1, [active |-> navActive, section |-> NoSection],
                             navLinks, entries)
       IN  /\ navActive' = st.active
           /\ navLast' = [stepped |-> st.section # NoSection, section |-> st.section]
    /\ UNCHANGED <<version, navLinks, navHeader, headerScrolled, navScrollY,
                   navTimeout, navTimers>>

\* the highlighter when it is not the controller under check: no nav link
NavOff ==
    /\ navLinks = <<>>
    /\ navActive = {}
    /\ navHeader = FALSE
    /\ headerScrolled = FALSE
    /\ navScrollY = 0
    /\ navTimeout = NoHandle
    /\ navTimers = <<>>
    /\ navLast = [stepped |-> FALSE, section |-> NoSection]

-----------------------------------------------------------------------------
(* Startup: the DOMContentLoaded handler of each version.  The page is the *)
(* set of names the script can find: elements (a collection counts as      *)
(* present when it has at least one element) and the global                *)
(* IntersectionObserver.  A start function is described by the names it    *)
(* dereferences and the listeners, observers and timers it binds;          *)
(* dereferencing a missing name throws, which ends the handler.            *)

IO == "IntersectionObserver"

ModalParts == {"modalContent", "modalClose"}

\* the names each script looks for
PageNames(v) ==
    IF v = "v1"
    THEN {"year", "email-link", "contact", "anchor", "slide", "prevArrow",
          "nextArrow", "card", "aboutTrack", "aboutPrev", "aboutNext", "modal",
          "modalContent", "modalClose", "header", IO}
    ELSE {"year", "email-link", "contact", "anchor", "header", "menuBtn", "nav",
          "navSection", "image", "modal", "modalContent", "modalClose", IO}

\* the pages: the parts of the modal lie inside the modal
Pages(v) ==
    {pg \in SUBSET PageNames(v) : "modal" \notin pg => pg \cap ModalParts = {}}

Bind(by, on, type) == [by |-> by, on |-> on, type |-> type]

\* the names among ns that the page has
Found(pg, ns) == ns \cap pg

Nothing == [derefs |-> {}, bound |-> {}, vis |-> ""]

initYearDisplay(pg) ==
    [derefs |-> Found(pg, {"year"}), bound |-> {}, vis |-> ""]

initEmailCopy(pg) ==
    [derefs |-> Found(pg, {"email-link"}),
     bound  |-> {Bind("initEmailCopy", n, "click") : n \in Found(pg, {"email-link"})},
     vis    |-> ""]

initCopyableContacts(pg) ==
    [derefs |-> Found(pg, {"contact"}),
     bound  |-> {Bind("initCopyableContacts", n, "click") : n \in Found(pg, {"contact"})},
     vis    |-> ""]

\* initSmoothNavigation (v1), initSmoothScroll (v2)
initSmoothNavigation(by, pg) ==
    [derefs |-> Found(pg, {"anchor"}),
     bound  |-> {Bind(by, n, "click") : n \in Found(pg, {"anchor"})},
     vis    |-> ""]

\* v1: ripple, parallax and hover listeners on collections and on the hero,
\* each bound only where the element exists (the page model keeps none of them)
initEnhancedInteractions(pg) == Nothing

\* v1: the observer is created whatever the page has; v2: only when the
\* global exists and there is an image to load
initLazyLoading(v, pg) ==
    IF v = "v1"
    THEN [derefs |-> {IO} \cup Found(pg, {"image"}),
          bound  |-> {Bind("initLazyLoading", n, "observe") : n \in Found(pg, {"image"})},
          vis    |-> ""]
    ELSE IF IO \in pg /\ "image" \in pg
    THEN [derefs |-> {IO, "image"},
          bound  |-> {Bind("initLazyLoading", "image", "observe")},
          vis    |-> ""]
    ELSE Nothing

\* a plausible slip: init() lacks the check for an empty carousel
newProjectCarouselNoEmptyCheck(pg) ==
    [derefs |-> Found(pg, {"slide", "prevArrow", "nextArrow"}) \cup {"document"},
     bound  |-> {Bind("ProjectCarousel", n, "click")
                    : n \in Found(pg, {"slide", "prevArrow", "nextArrow"})}
                \cup {Bind("ProjectCarousel", "document", "keydown")},
     vis    |-> ""]

\* new ProjectCarousel(): the dots (one per slide), the arrows that exist, the
\* document's keydown
newProjectCarousel(pg) ==
    IF "slide" \notin pg THEN Nothing
    ELSE [derefs |-> Found(pg, {"slide", "prevArrow", "nextArrow"}) \cup {"document"},
          bound  |-> {Bind("ProjectCarousel", n, "click")
                         : n \in Found(pg, {"slide", "prevArrow", "nextArrow"})}
                     \cup {Bind("ProjectCarousel", "document", "keydown")},
          vis    |-> ""]

\* a plausible slip: initTouchSupport lacks the check for the track
newAboutCarouselUnguardedTouch(pg) ==
    IF "card" \notin pg THEN Nothing
    ELSE [derefs |-> Found(pg, {"aboutNext", "aboutPrev"}) \cup {"window", "aboutTrack"},
          bound  |-> {Bind("AboutCarousel", "window", "timeout"),
                      Bind("AboutCarousel", "window", "resize")}
                     \cup {Bind("AboutCarousel", n, "click")
                              : n \in Found(pg, {"aboutNext", "aboutPrev"})}
                     \cup {Bind("AboutCarousel", "aboutTrack", t)
                              : t \in {"touchstart", "touchmove", "touchend"}},
          vis    |-> ""]

\* new AboutCarousel(): the delayed first update, the buttons that exist, the
\* window's resize, the touch listeners when the track exists
newAboutCarousel(pg) ==
    IF "card" \notin pg THEN Nothing
    ELSE [derefs |-> Found(pg, {"aboutNext", "aboutPrev", "aboutTrack"}) \cup {"window"},
          bound  |-> {Bind("AboutCarousel", "window", "timeout"),
                      Bind("AboutCarousel", "window", "resize")}
                     \cup {Bind("AboutCarousel", n, "click")
                              : n \in Found(pg, {"aboutNext", "aboutPrev"})}
                     \cup {Bind("AboutCarousel", n, t)
                              : n \in Found(pg, {"aboutTrack"}),
                                t \in {"touchstart", "touchmove", "touchend"}},
          vis    |-> ""]

\* new ImageModal() (v1), initImageModal (v2): v2 also needs the image
initImageModal(v, by, pg) ==
    IF "modal" \notin pg \/ (v = "v2" /\ "modalContent" \notin pg) THEN Nothing
    ELSE [derefs |-> {"modal", "document"} \cup Found(pg, {"modalClose"}),
          bound  |-> {Bind(by, "modal", "click"), Bind(by, "document", "keydown")}
                     \cup {Bind(by, n, "click") : n \in Found(pg, {"modalClose"})},
          vis    |-> ""]

\* new ScrollAnimations() (v1): geometry polling on scroll and resize
newScrollAnimations(pg) ==
    [derefs |-> {"window"},
     bound  |-> {Bind("ScrollAnimations", "window", "scroll"),
                 Bind("ScrollAnimations", "window", "resize")},
     vis    |-> "polling"]

\* new NavigationHighlight() (v1)
newNavigationHighlight(pg) ==
    [derefs |-> {"window"},
     bound  |-> {Bind("NavigationHighlight", "window", "scroll")},
     vis    |-> ""]

initHeaderScroll(pg) ==
    IF "header" \notin pg THEN Nothing
    ELSE [derefs |-> {"header", "window"},
          bound  |-> {Bind("initHeaderScroll", "window", "scroll")},
          vis    |-> ""]

initMobileMenu(pg) ==
    IF "menuBtn" \notin pg \/ "nav" \notin pg THEN Nothing
    ELSE [derefs |-> {"menuBtn", "nav", "document"},
          bound  |-> {Bind("initMobileMenu", "menuBtn", "click"),
                      Bind("initMobileMenu", "document", "click")},
          vis    |-> ""]

\* v2: the observer is created when there are sections and nav links
initActiveNavigation(pg) ==
    IF "navSection" \notin pg THEN Nothing
    ELSE [derefs |-> {IO, "navSection"},
          bound  |-> {Bind("initActiveNavigation", "navSection", "observe")},
          vis    |-> ""]

\* v2: two observers are created whatever the page has
initScrollAnimations(pg) ==
    [derefs |-> {IO},
     bound  |-> {Bind("initScrollAnimations", "window", "observe")},
     vis    |-> "observer"]

\* v2: if (modal) trapFocus(modal)
startTrapFocus(pg) ==
    IF "modal" \notin pg THEN Nothing
    ELSE [derefs |-> {"modal"},
          bound  |-> {Bind("trapFocus", "modal", "keydown")},
          vis    |-> ""]

\* the start functions in the order the handler calls them
StartupSequence(v) ==
    IF v = "v1"
    THEN <<"initYearDisplay", "initEmailCopy", "initCopyableContacts",
           "initSmoothNavigation", "initEnhancedInteractions", "initLazyLoading",
           "ProjectCarousel",
           "AboutCarousel", "ImageModal", "ScrollAnimations", "NavigationHighlight">>
    ELSE <<"initYearDisplay", "initEmailCopy", "initCopyableContacts",
           "initHeaderScroll", "initMobileMenu", "initSmoothScroll",
           "initActiveNavigation", "initScrollAnimations", "initImageModal",
           "initLazyLoading", "trapFocus">>

StartFunction(v, name, pg) ==
    CASE name = "initYearDisplay"      -> initYearDisplay(pg)
      [] name = "initEmailCopy"        -> initEmailCopy(pg)
      [] name = "initCopyableContacts" -> initCopyableContacts(pg)
      [] name = "initSmoothNavigation" -> initSmoothNavigation(name, pg)
      [] name = "initSmoothScroll"     -> initSmoothNavigation(name, pg)
      [] name = "initEnhancedInteractions" -> initEnhancedInteractions(pg)
      [] name = "initLazyLoading"      -> initLazyLoading(v, pg)
      [] name = "ProjectCarousel"      -> newProjectCarousel(pg)
      [] name = "AboutCarousel"        -> newAboutCarousel(pg)
      [] name = "ImageModal"           -> initImageModal(v, name, pg)
      [] name = "initImageModal"       -> initImageModal(v, name, pg)
      [] name = "ScrollAnimations"     -> newScrollAnimations(pg)
      [] name = "NavigationHighlight"  -> newNavigationHighlight(pg)
      [] name = "initHeaderScroll"     -> initHeaderScroll(pg)
      [] name = "initMobileMenu"       -> initMobileMenu(pg)
      [] name = "initActiveNavigation" -> initActiveNavigation(pg)
      [] name = "initScrollAnimations" -> initScrollAnimations(pg)
      [] name = "trapFocus"            -> startTrapFocus(pg)

\* window and document always exist
Globals == {"window", "document"}

\* dereferencing a name the page lacks throws (TypeError, ReferenceError)
Throws(r, pg) == \E n \in r.derefs : n \notin pg \cup Globals

NoError == ""

InitStartup ==
    /\ version \in {"v1", "v2"}
    /\ page \in Pages(version)
    /\ startPc = 1
    /\ startError = NoError
    /\ initialized = {}
    /\ bound = {}
    /\ visMode = ""

StartupOver == startError # NoError \/ startPc > Len(StartupSequence(version))

\* the handler calls its next start function
StartupCalls ==
    /\ ~StartupOver
    /\ LET name == StartupSequence(version)[startPc]
           r    == StartFunction(version, name, page)
       IN  IF Throws(r, page)
           THEN /\ startError' = name
                /\ UNCHANGED <<initialized, bound, visMode>>
           ELSE /\ initialized' = initialized \cup {name}
                /\ bound' = bound \cup r.bound
                /\ visMode' = IF r.vis # "" THEN r.vis ELSE visMode
                /\ UNCHANGED startError
    /\ startPc' = startPc + 1
    /\ UNCHANGED <<version, page>>

\* the start function was called
Attempted(name) == name \in initialized \/ startError = name

\* the start functions of a version
StartNames(v) == {StartupSequence(v)[i] : i \in DOMAIN StartupSequence(v)}

\* the elements without which a start function returns before wiring anything
Mandatory(v, name) ==
    CASE name = "ProjectCarousel"      -> {"slide"}
      [] name = "AboutCarousel"        -> {"card"}
      [] name = "ImageModal"           -> {"modal"}
      [] name = "initImageModal"       -> {"modal", "modalContent"}
      [] name = "initEmailCopy"        -> {"email-link"}
      [] name = "initHeaderScroll"     -> {"header"}
      [] name = "initMobileMenu"       -> {"menuBtn", "nav"}
      [] name = "initActiveNavigation" -> {"navSection"}
      [] name = "trapFocus"            -> {"modal"}
      [] OTHER                         -> {}

\* the start functions that create an IntersectionObserver
UsesObserver(v) ==
    IF v = "v1" THEN {"initLazyLoading"}
    ELSE {"initActiveNavigation", "initScrollAnimations", "initLazyLoading"}

\* startup when it is not under check: it is over, on a page with nothing
StartupOff ==
    /\ page = {}
    /\ startPc = 0
    /\ startError = NoError
    /\ initialized = {}
    /\ bound = {}
    /\ visMode = ""

-----------------------------------------------------------------------------
(* The mobile menu (v2): initMobileMenu.                                   *)

\* where a click lands: on the menu button (or inside it), on a nav link of
\* the nav, elsewhere inside the nav, or outside both
MenuTargets == {"button", "link", "nav", "outside"}

InitMenu ==
    /\ menuBtn \in BOOLEAN
    /\ menuNav \in BOOLEAN
    /\ navMenuActive = FALSE
    /\ menuBtnActive = FALSE
    /\ menuLast = [event |-> "none", navBefore |-> FALSE, btnBefore |-> FALSE]

\* initMobileMenu wires the menu only when the button and the nav exist
MenuBound(v) == v = "v2" /\ menuBtn /\ menuNav

\* a plausible slip: the document's handler forgets the menu button
DocumentClickClosesOffNav(target) == target \notin {"nav", "link"}

\* the document's click handler closes the menu:
\* !nav.contains(e.target) && !menuBtn.contains(e.target)
DocumentClickCloses(target) == target \notin {"nav", "link", "button"}

\* a click: the handler of the element clicked (the button toggles both
\* classes, a nav link removes both), then the document's handler
ClickMenu(target) ==
    /\ MenuBound(version)
    /\ target = "link" => Len(navLinks) > 0
    /\ LET nav1 == IF target = "button" THEN ~navMenuActive
                   ELSE IF target = "link" THEN FALSE ELSE navMenuActive
           btn1 == IF target = "button" THEN ~menuBtnActive
                   ELSE IF target = "link" THEN FALSE ELSE menuBtnActive
       IN  /\ navMenuActive' = IF DocumentClickCloses(target) THEN FALSE ELSE nav1
           /\ menuBtnActive' = IF DocumentClickCloses(target) THEN FALSE ELSE btn1
    /\ menuLast' = [event |-> target, navBefore |-> navMenuActive,
                    btnBefore |-> menuBtnActive]
    /\ UNCHANGED <<menuBtn, menuNav>>

MenuOff ==
    /\ menuBtn = FALSE
    /\ menuNav = FALSE
    /\ navMenuActive = FALSE
    /\ menuBtnActive = FALSE
    /\ menuLast = [event |-> "none", navBefore |-> FALSE, btnBefore |-> FALSE]

-----------------------------------------------------------------------------
(* Lazy image loading: initLazyLoading (both versions).                    *)

MaxImages == 4

\* the values of img.src: what the markup gave, the value of data-src, or the
\* string made from an undefined dataset.src
InitialSrc == [kind |-> "initial"]

DeferredSrc == [kind |-> "deferred"]

UndefinedSrc == [kind |-> "undefined"]

LazyImages == 1..imgCount

\* the observer exists: v1 creates it whenever the constructor exists, v2
\* also wants at least one image
LazyBound(v, io, n) == io /\ (v = "v2" => n > 0)

InitLazy ==
    /\ version \in {"v1", "v2"}
    /\ lazyIO \in BOOLEAN
    /\ imgCount \in 0..MaxImages
    /\ images = [i \in LazyImages |-> [src |-> InitialSrc, data |-> TRUE]]
    /\ imgObserved = IF LazyBound(version, lazyIO, imgCount) THEN LazyImages ELSE {}
    /\ imgAssigns = [i \in LazyImages |-> 0]
    /\ lazyLast = [i \in LazyImages |-> "none"]

\* a plausible slip: the attribute is not removed
LoadImageKeepsAttr(img) ==
    [src |-> IF img.data THEN DeferredSrc ELSE UndefinedSrc, data |-> img.data]

\* img.src = img.dataset.src; img.removeAttribute('data-src')
LoadImage(img) ==
    [src |-> IF img.data THEN DeferredSrc ELSE UndefinedSrc, data |-> FALSE]

\* the batches an observer may report: one entry for each of some observed
\* images, intersecting or not
LazyBatches(obs) == UNION {[S -> BOOLEAN] : S \in (SUBSET obs) \ {{}}}

\* the observer's callback
LazyReport(batch) ==
    LET loads == {i \in DOMAIN batch : batch[i]}
    IN  /\ images' = [i \in LazyImages |->
                        IF i \in loads THEN LoadImage(images[i]) ELSE images[i]]
        /\ imgObserved' = imgObserved \ loads
        /\ imgAssigns' = [i \in LazyImages |->
                            IF i \in loads THEN Min(imgAssigns[i] + 1, 2)
                            ELSE imgAssigns[i]]
        /\ lazyLast' = [i \in LazyImages |->
                          IF i \in DOMAIN batch
                          THEN (IF batch[i] THEN "in" ELSE "out")
                          ELSE lazyLast[i]]
        /\ UNCHANGED <<lazyIO, imgCount>>

LazyOff ==
    /\ lazyIO = FALSE
    /\ imgCount = 0
    /\ images = <<>>
    /\ imgObserved = {}
    /\ imgAssigns = <<>>
    /\ lazyLast = <<>>

-----------------------------------------------------------------------------
(* The specifications: one controller each, the others parked.             *)

slideRest == <<aboutVars, version, dbVars, copyVars, visVars, moreVars>>

aboutRest == <<slideVars, version, dbVars, copyVars, visVars, moreVars>>

dbRest == <<slideVars, aboutVars, copyVars, visVars, moreVars>>

copyRest == <<slideVars, aboutVars, dbVars, visVars, moreVars>>

visRest == <<slideVars, aboutVars, dbVars, copyVars, moreVars>>

firstVars == <<slideVars, aboutVars, dbVars, copyVars, visVars>>

modalRest == <<firstVars, navVars, startVars, menuVars, lazyVars>>

navRest == <<firstVars, modalVars, startVars, menuVars, lazyVars>>

startRest == <<firstVars, modalVars, navVars, menuVars, lazyVars>>

menuRest == <<firstVars, version, modalVars, navVars, startVars, lazyVars>>

lazyRest == <<firstVars, version, modalVars, navVars, startVars, menuVars>>

FirstOff == SlideOff /\ AboutOff /\ DebounceOff /\ CopyOff /\ VisOff

\* the added controllers, parked
MoreOff == ModalOff /\ NavOff /\ StartupOff /\ MenuOff /\ LazyOff

SlideStep ==
    \/ (\E a \in DataSlideAttrs : ClickDot(a)) /\ UNCHANGED slideRest
    \/ ClickPrevArrow /\ UNCHANGED slideRest
    \/ ClickNextArrow /\ UNCHANGED slideRest
    \/ KeyDownSlide("ArrowLeft") /\ UNCHANGED slideRest
    \/ KeyDownSlide("ArrowRight") /\ UNCHANGED slideRest
    \/ FadeIn /\ UNCHANGED slideRest
    \/ TickSlide /\ UNCHANGED slideRest

SlidePage ==
    InitSlide /\ AboutOff /\ DebounceOff /\ CopyOff /\ VisOff /\ MoreOff /\ version = "v1"

SpecSlide == SlidePage /\ [][SlideStep]_vars

AboutStep ==
    \/ ClickAboutNext /\ UNCHANGED aboutRest
    \/ ClickAboutPrev /\ UNCHANGED aboutRest
    \/ (\E w \in ContainerWidths : ResizeAbout(w)) /\ UNCHANGED aboutRest
    \/ AboutTimerFires /\ UNCHANGED aboutRest
    \/ (\E x \in TouchXs : TouchStart(x)) /\ UNCHANGED aboutRest
    \/ (\E x \in TouchXs : TouchMove(x)) /\ UNCHANGED aboutRest
    \/ TouchEnd /\ UNCHANGED aboutRest
    \/ TickAbout /\ UNCHANGED aboutRest

AboutPage ==
    InitAbout /\ SlideOff /\ DebounceOff /\ CopyOff /\ VisOff /\ MoreOff /\ version = "v1"

SpecAbout == AboutPage /\ [][AboutStep]_vars

DebounceStep ==
    \/ (\E arg \in DebounceArgs : CallDebounced(arg)) /\ UNCHANGED dbRest
    \/ DebounceFires /\ UNCHANGED dbRest
    \/ TickDebounce /\ UNCHANGED dbRest

DebouncePage == InitDebounce /\ SlideOff /\ AboutOff /\ CopyOff /\ VisOff /\ MoreOff

SpecDebounce == DebouncePage /\ [][DebounceStep]_vars

CopyStep ==
    \/ ClickEmail /\ UNCHANGED copyRest
    \/ (\E a \in ContactAttrs : ClickContact(a)) /\ UNCHANGED copyRest
    \/ WriteTextResolves /\ UNCHANGED copyRest
    \/ WriteTextRejects /\ UNCHANGED copyRest
    \/ CopyTimerFires /\ UNCHANGED copyRest
    \/ TickCopy /\ UNCHANGED copyRest

CopyPage == InitCopy /\ SlideOff /\ AboutOff /\ DebounceOff /\ VisOff /\ MoreOff

SpecCopy == CopyPage /\ [][CopyStep]_vars

\* copy and toast with time passing and due timers running
SpecCopyFair ==
    /\ SpecCopy
    /\ WF_vars(TickCopy /\ UNCHANGED copyRest)
    /\ WF_vars(CopyTimerFires /\ UNCHANGED copyRest)

VisStep ==
    \/ (\E y \in ScrollYs : ScrollVis(y)) /\ UNCHANGED visRest
    \/ (\E h \in InnerHeights : ResizeVis(h)) /\ UNCHANGED visRest
    \/ CheckTimerFires /\ UNCHANGED visRest
    \/ MarkTimerFires /\ UNCHANGED visRest
    \/ (\E e \in VisElementSet, isIntersecting \in BOOLEAN :
            ObserverReports(e, isIntersecting)) /\ UNCHANGED visRest
    \/ TickVis /\ UNCHANGED visRest

VisPage == InitVis /\ SlideOff /\ AboutOff /\ DebounceOff /\ CopyOff /\ MoreOff

SpecVis == VisPage /\ [][VisStep]_vars

\* a due timer of the scroll animations runs
VisTimerStep == (CheckTimerFires \/ MarkTimerFires) /\ UNCHANGED visRest

\* the scroll animations with time passing and due timers running
SpecVisFair ==
    /\ SpecVis
    /\ WF_vars(TickVis /\ UNCHANGED visRest)
    /\ WF_vars(VisTimerStep)

ModalStep ==
    \/ (\E t \in ModalTriggers : ClickExpand(t)) /\ UNCHANGED modalRest
    \/ (\E target \in ModalTargets : ClickModal(target)) /\ UNCHANGED modalRest
    \/ KeyDownEscape /\ UNCHANGED modalRest
    \/ (\E shift \in BOOLEAN : KeyDownTab(shift)) /\ UNCHANGED modalRest
    \/ (\E i \in 0..(MaxFocusable + 1) : FocusElement(i)) /\ UNCHANGED modalRest

ModalPage ==
    /\ InitModal
    /\ FirstOff /\ NavOff /\ StartupOff /\ MenuOff /\ LazyOff

SpecModal == ModalPage /\ [][ModalStep]_vars

NavStep ==
    \/ (\E y \in NavScrollYs : NavScroll(y)) /\ UNCHANGED navRest
    \/ NavTimerFires /\ UNCHANGED navRest
    \/ TickNav /\ UNCHANGED navRest
    \/ (\E entries \in NavEntries : NavObserve(entries)) /\ UNCHANGED navRest

NavPage ==
    /\ InitNav
    /\ FirstOff /\ ModalOff /\ StartupOff /\ MenuOff /\ LazyOff

SpecNav == NavPage /\ [][NavStep]_vars

StartupStep == StartupCalls /\ UNCHANGED startRest

StartupPage ==
    /\ InitStartup
    /\ FirstOff /\ ModalOff /\ NavOff /\ MenuOff /\ LazyOff

SpecStartup == StartupPage /\ [][StartupStep]_vars

\* the navigation of the page: the highlight of both versions and v2's menu
MenuStep ==
    \/ (\E target \in MenuTargets : ClickMenu(target)) /\ UNCHANGED menuRest
    \/ NavStep

MenuPage ==
    /\ InitNav
    /\ InitMenu
    /\ FirstOff /\ ModalOff /\ StartupOff /\ LazyOff

SpecMenu == MenuPage /\ [][MenuStep]_vars

LazyStep ==
    (\E batch \in LazyBatches(imgObserved) : LazyReport(batch)) /\ UNCHANGED lazyRest

LazyPage ==
    /\ InitLazy
    /\ FirstOff /\ ModalOff /\ NavOff /\ StartupOff /\ MenuOff

SpecLazy == LazyPage /\ [][LazyStep]_vars

\* the whole page (one script version): the controllers side by side
Init ==
    /\ version \in {"v1", "v2"}
    /\ IF version = "v1" THEN InitSlide /\ InitAbout ELSE SlideOff /\ AboutOff
    /\ InitDebounce
    /\ InitCopy
    /\ InitVis
    /\ InitModal
    /\ InitNav
    /\ InitStartup
    /\ InitMenu
    /\ InitLazy

Next ==
    \/ SlideStep \/ AboutStep \/ DebounceStep \/ CopyStep \/ VisStep
    \/ ModalStep \/ MenuStep \/ StartupStep \/ LazyStep

Spec == Init /\ [][Next]_vars

-----------------------------------------------------------------------------
(* The claims.                                                             *)

\* C1: with N >= 1 slides and a starting index in [0, N), N consecutive
\* showNextSlide bring currentSlide back to the starting index, and
\* showNextSlide followed by showPrevSlide, or showPrevSlide followed by
\* showNextSlide, leaves currentSlide where it was.
C1_NextCyclicPrevInverse ==
    /\ (totalSlides >= 1 /\ nextRun.len = totalSlides /\ InSlideRange(nextRun.start))
          => currentSlide = nextRun.start
    /\ (/\ <<lastTwo.op2, lastTwo.op1>> \in {<<"next", "prev">>, <<"prev", "next">>}
        /\ InSlideRange(lastTwo.before2))
          => currentSlide = lastTwo.before2

C1_Witness ==
    /\ totalSlides = 3
    /\ nextRun.len = 3
    /\ nextRun.start = Num(1)
    /\ lastTwo.op2 = "next"

\* C2: with N >= 1 slides, after any sequence of next, prev and goTo(i), i being
\* whatever parseInt makes of an indicator's data-slide attribute, currentSlide
\* is an integer in [0, N).
C2_IndexInRange == totalSlides >= 1 => InSlideRange(currentSlide)


\* C3: for every N >= 1 cards, from the state the constructor produces, N
\* showNextCard bring currentAboutIndex back to its starting value, and
\* showNextCard followed by showPrevCard leaves it unchanged.
C3_AboutCyclicFromConstructor ==
    totalAboutCards >= 1 =>
        /\ (/\ ctorTrace.ok
            /\ ctorTrace.ops = [k \in 1..totalAboutCards |-> "next"])
              => currentAboutIndex = AboutStartIndex
        /\ (ctorTrace.ok /\ ctorTrace.ops = <<"next", "prev">>)
              => currentAboutIndex = AboutStartIndex

\* C4: a gesture (touchstart, touchmoves, touchend) whose net horizontal
\* displacement is 50 px or less, a tap included, makes no transition; one of
\* 51 px or more makes exactly one: showNextCard leftward, showPrevCard
\* rightward.
C4_SwipeThreshold ==
    [][(gesture.on /\ ~gesture'.on) =>
          LET disp == gesture.last - gesture.start
          IN  aboutFired' = IF Abs(disp) <= SwipeThreshold THEN "none"
                            ELSE IF disp < 0 THEN "next" ELSE "prev"]_vars

\* C5: N >= 1 calls of a debounced function, each made while the timer of the
\* previous call is pending, produce exactly one invocation of func; it happens
\* only once the wait has elapsed since the last call and receives the last
\* call's arguments.
C5_DebounceOneTrailingCall ==
    /\ Len(dbTimers) <= 1
    /\ dbRun.count <= 1
    /\ (dbBurst.calls >= 1 /\ dbTimers = <<>>) => dbRun.count = 1
    /\ dbRun.count >= 1 => (dbRun.args = dbBurst.args /\ dbRun.since >= dbWait)

C5_Witness ==
    /\ dbBurst.calls = 3
    /\ dbRun.count = 1
    /\ dbRun.args = "b"
    /\ dbWait = 250

\* C6: a showToast call made while an earlier message is shown overwrites the
\* text at once and resets the hide timer: the toast stays shown for the full
\* duration counted from the most recent call, and no timer of an earlier call
\* hides it sooner.
C6_ToastTimerReset ==
    (toastCall.made /\ toastCall.since < ToastDuration(version)) => toastShown

\* C7: when the primary write succeeds copyToClipboard returns true and creates
\* no fallback element; when it fails, the temporary element is appended
\* exactly once and removed exactly once, whatever execCommand does, and none
\* remains in the document when the call returns.
C7_FallbackElementCleanedUp ==
    /\ bodyTextAreas = 0
    /\ lastCopy.done =>
          IF lastCopy.primary = "ok"
          THEN lastCopy.ret /\ lastCopy.created = 0 /\ lastCopy.appended = 0
          ELSE lastCopy.created = 1 /\ lastCopy.appended = 1 /\ lastCopy.removed = 1

C7_Witness ==
    /\ lastCopy.done
    /\ lastCopy.primary = "rejected"
    /\ lastCopy.exec = "throws"
    /\ lastCopy.removed = 1

\* C8: copyToClipboard returns true exactly when the primary write succeeded or
\* the fallback copy command succeeded, and false when the primary write failed
\* and the command threw or returned false.
C8_ReturnsOutcome ==
    lastCopy.done => (lastCopy.ret <=> (lastCopy.primary = "ok" \/ lastCopy.exec = "true"))

\* C9: whenever copyToClipboard reports failure to a click handler (the email
\* link's or a contact button's, in either version), the handler shows a status
\* message through the toast.
C9_FailureIsShown ==
    (lastCopy.done /\ ~lastCopy.ret /\ toastExists) =>
        (lastCopy.toasted /\ toastShown /\ toastText # NoMessage)

\* C10: the visibility marker is one-way and applied at most once: whatever
\* the scroll/resize checks, observer reports and timers, an element goes from
\* not visible to visible at most once, and no step removes 'visible' from an
\* element that carries it.
C10_VisibleOneWay ==
    [][\A e \in VisElementSet :
          /\ e \in visible => e \in visible'
          /\ gained'[e] <= 1]_vars

C10_Witness ==
    \E e \in VisElementSet : e \in visible /\ marks[e] = 2 /\ gained[e] = 1

\* C12: constructing ProjectCarousel on a page without slides, or
\* AboutCarousel on a page without cards, binds no listener and no delayed
\* callback and raises no error.
C12_EmptyCarouselInert ==
    \A c \in {[name |-> "ProjectCarousel", item |-> "slide"],
               [name |-> "AboutCarousel", item |-> "card"]} :
        (version = "v1" /\ Attempted(c.name) /\ c.item \notin page)
        => /\ c.name \in initialized
           /\ \A b \in bound : b.by # c.name

C12_Witness ==
    /\ version = "v1"
    /\ "slide" \notin page
    /\ "card" \notin page
    /\ {"prevArrow", "nextArrow", "aboutTrack", "aboutNext"} \subseteq page
    /\ {"ProjectCarousel", "AboutCarousel"} \subseteq initialized

\* C13: a contact button click whose copy succeeded puts exactly the button's
\* data-contact string on the clipboard, and the message displayed contains
\* "Email" when that string contains "@" and "Phone" when it does not.
C13_ContactCopiedAndNamed ==
    (/\ lastCopy.done
     /\ lastCopy.handler = "contact"
     /\ lastCopy.attr.present
     /\ (lastCopy.primary = "ok" \/ lastCopy.exec = "true"))
    => /\ clipboard = [set |-> TRUE, text |-> lastCopy.attr.chars]
       /\ toastExists =>
             /\ toastShown
             /\ Includes(toastText,
                         IF Includes(lastCopy.attr.chars, "@") THEN "Email" ELSE "Phone")
             /\ ~Includes(toastText,
                          IF Includes(lastCopy.attr.chars, "@") THEN "Phone" ELSE "Email")

C13_Witness ==
    /\ lastCopy.done
    /\ lastCopy.handler = "contact"
    /\ lastCopy.attr.present
    /\ ~Includes(lastCopy.attr.chars, "@")
    /\ lastCopy.exec = "true"
    /\ toastShown
    /\ Includes(toastText, "Phone")

\* C16: without IntersectionObserver the startup sequence raises no error,
\* every start function that does not depend on it is run, and visibility is
\* detected by polling the geometry.
C16_StartsWithoutObserver ==
    (IO \notin page /\ StartupOver)
    => /\ startError = NoError
       /\ StartNames(version) \ UsesObserver(version) \subseteq initialized
       /\ visMode = "polling"

\* C17: whatever elements the page lacks, the startup sequence completes
\* without an error: a start function whose mandatory element is missing
\* binds nothing, and every start function after it is still run.
C17_StartsOnAnyPage ==
    (IO \in page /\ StartupOver)
    => /\ startError = NoError
       /\ initialized = StartNames(version)
       /\ \A b \in bound : Mandatory(version, b.by) \subseteq page

C17_Witness ==
    /\ StartupOver
    /\ version = "v1"
    /\ page = {IO, "card"}
    /\ "NavigationHighlight" \in initialized

\* C18: once every pending fade-in callback has fired, the only slide carrying
\* 'active' is the slide at currentSlide, also when transitions follow each
\* other by less than the fade delay.
C18_NoStaleActiveSlide ==
    (/\ totalSlides >= 1
     /\ lastTwo.op1 # ""
     /\ InSlideRange(currentSlide)
     /\ slideTimers = <<>>)
    => slideActive = {currentSlide.v}

\* C19: with at least one card, after every updateCarousel (the first delayed
\* one, every transition, every debounced resize) currentAboutIndex is in
\* [0, N) and the card at currentAboutIndex is the only one carrying 'active'.
C19_ActiveCardIsCurrent ==
    [][(/\ AboutBound
        /\ \/ AboutTimerFires
           \/ ClickAboutNext
           \/ ClickAboutPrev
           \/ TouchEnd /\ aboutFired' # "none")
       => /\ currentAboutIndex' \in Cards
          /\ cardActive' = {currentAboutIndex'}]_vars

\* C11: from the open state, an Escape key press closes the modal, a click
\* whose target is the modal element itself (the backdrop) closes it, and a
\* click whose target is inside the modal content leaves it open.
C11_ModalCloses ==
    modalLast.wasActive =>
        /\ modalLast.event = "Escape" => ~modalActive
        /\ modalLast.event = "modal" => ~modalActive
        /\ modalLast.event = "content" => modalActive

C11_Witness ==
    /\ modalLast.wasActive
    /\ modalLast.event = "content"
    /\ modalActive

\* C14: the nav links having pairwise distinct fragments, at most one of them
\* carries 'active' in every reachable state, and after a highlight step
\* triggered by a section the active link, if any, is the one whose href is
\* exactly "#" followed by that section's id.
C14_OneActiveLink ==
    /\ Cardinality(navActive) <= 1
    /\ navLast.stepped =>
          navActive = {l \in DOMAIN navLinks : navLinks[l] = Fragment(navLast.section)}

C14_Witness ==
    /\ navLast.stepped
    /\ navLast.section = <<"b">>
    /\ navActive = {2}
    /\ version = "v1"

\* C15: in v2, while the modal is open and focus is on one of its focusable
\* descendants, a Tab or Shift+Tab press leaves focus on one of them: Tab on
\* the last moves focus to the first, Shift+Tab on the first to the last.
C15_FocusStaysInModal ==
    (/\ version = "v2"
     /\ modalLast.event = "Tab"
     /\ modalLast.wasActive
     /\ modalLast.from \in 1..focusCount)
    => /\ activeElement \in 1..focusCount
       /\ (~modalLast.shift /\ modalLast.from = focusCount) => activeElement = 1
       /\ (modalLast.shift /\ modalLast.from = 1) => activeElement = focusCount

C15_Witness ==
    /\ version = "v2"
    /\ modalLast.event = "Tab"
    /\ modalLast.wasActive
    /\ modalLast.shift
    /\ focusCount = 2
    /\ modalLast.from = 1
    /\ activeElement = 2

\* C20: in every reachable state the page scroll is locked (body overflow
\* 'hidden') if and only if the modal is open (carries 'active').
C20_ScrollLockIffOpen == (bodyOverflow = "hidden") <=> modalActive

C20_Witness ==
    /\ modalLast.wasActive
    /\ modalLast.event = "close"
    /\ ~modalActive
    /\ bodyOverflow = ""

\* the class-addition callbacks pending for element e
PendingMarks(e) == {i \in DOMAIN visTimers : visTimers[i].cb = MarkTimer(e)}

\* C21: polling strategy: a class-addition callback is scheduled for an
\* element only the first time it qualifies as visible; a later check that
\* runs while that callback is pending schedules no further one.
C21_OnePendingCallback ==
    version = "v1" => \A e \in VisElementSet : Cardinality(PendingMarks(e)) <= 1

\* C22: timers firing eventually, every element for which a check or an
\* intersecting report has scheduled the class addition eventually carries
\* 'visible' (a header reported as intersecting carries it at once), and in
\* the event-driven strategy an element is no longer observed from its first
\* intersecting report on.
C22_EventuallyVisible ==
    /\ \A e \in VisElementSet : (PendingMarks(e) # {}) ~> (e \in visible)
    /\ [](version = "v2" =>
            \A e \in VisElementSet :
                /\ (PendingMarks(e) # {} \/ e \in visible) => e \notin observed
                /\ (e \notin observed /\ e.kind = "section-header") => e \in visible)

C22_Witness ==
    /\ version = "v2"
    /\ \E e \in VisElementSet :
          /\ e.kind = "card"
          /\ e.index = 1
          /\ e \in visible
          /\ e \notin observed
          /\ PendingMarks(e) = {}

\* C23: timers firing eventually, a shown toast is eventually hidden, and a
\* hidden toast stays hidden until a showToast call shows it again.
C23_ToastEventuallyHidden ==
    /\ toastShown ~> ~toastShown
    /\ [][(~toastShown /\ toastShown') => (lastCopy'.done /\ lastCopy'.toasted)]_vars

C23_Witness ==
    /\ toastCall.made
    /\ ~toastShown
    /\ copyTimers = <<>>
    /\ toastCall.since = ToastDuration(version)

\* C24: in v2 the nav and the menu button carry 'active' together or not at
\* all in every reachable state; a click outside both closes the menu, and a
\* click on the menu button toggles it exactly once.
C24_MenuClassesTogether ==
    /\ navMenuActive = menuBtnActive
    /\ menuLast.event = "outside" => (~navMenuActive /\ ~menuBtnActive)
    /\ menuLast.event = "button" =>
          /\ navMenuActive = ~menuLast.navBefore
          /\ menuBtnActive = ~menuLast.btnBefore

C24_Witness ==
    /\ menuLast.event = "button"
    /\ ~menuLast.navBefore
    /\ navMenuActive
    /\ menuBtnActive

\* C25: the src of an image registered with a deferred source is assigned at
\* most once, from the deferred value and only upon a report that the image
\* is intersecting; from then on the image has no data-src attribute and is
\* not observed.
C25_LoadedOnce ==
    \A i \in LazyImages :
        /\ imgAssigns[i] <= 1
        /\ imgAssigns[i] = 0 => (images[i].src = InitialSrc /\ images[i].data)
        /\ imgAssigns[i] >= 1 =>
              /\ images[i].src = DeferredSrc
              /\ lazyLast[i] = "in"
              /\ ~images[i].data
              /\ i \notin imgObserved

C25_Witness ==
    /\ imgCount >= 2
    /\ imgAssigns[1] = 1
    /\ images[1].src = DeferredSrc
    /\ lazyLast[2] = "out"
    /\ 2 \in imgObserved

=============================================================================
